---- MODULE Spec2Model ----
(***************************************************************************)
(* Decorator registration of the component engine                          *)
(* (packages/@lwc/engine/src/framework/decorators/register.ts).            *)
(*                                                                         *)
(* The state is the process-wide Registry (signedDecoratorToMetaMap), the  *)
(* own property descriptors of every component prototype, the per-class    *)
(* wiring table written by storeWiredFieldMeta / storeWiredMethodMeta, the *)
(* build mode (process.env.NODE_ENV) and a record of the last call.        *)
(*                                                                         *)
(* Modelling decisions:                                                    *)
(*  - member names are identifier names (the compiler emits decorators for *)
(*    identifier-named members only), so for..in enumerates an object's    *)
(*    keys in insertion order and an object literal is the sequence of its *)
(*    entries, with pairwise distinct keys;                                *)
(*  - a property descriptor is the record of the attributes the code       *)
(*    reads (value, writable, get, set) plus the factory that made it;     *)
(*    every member of a component prototype is configurable, so that       *)
(*    defineProperty always succeeds;                                      *)
(*  - a decorator category the compiler did not emit is absent from meta   *)
(*    (undefined), never an empty collection.                              *)
(***************************************************************************)
EXTENDS Integers, Sequences, FiniteSets, TLC

\* ------------------------------------------------------------ bounds ----
\* At most MaxMembers decorated members in one meta.
MaxMembers == 2
\* A call costs 1, a decorated member it carries costs 1 more; a behaviour
\* spends at most MaxProcessed.
MaxProcessed == 4

\* ------------------------------------------------------- the universe ----
\* Two component classes; Child extends Parent (Child.prototype inherits
\* from Parent.prototype).
Ctors == {"Parent", "Child"}

SuperOf(Ctor) == IF Ctor = "Child" THEN "Parent" ELSE "none"

Names == {"x", "y"}

\* enum PropType
Field == 0
Set == 1
Get == 2
GetSet == 3

PropTypes == {Field, Set, Get, GetSet}

\* The adapter and the config callback of the @wire on a member: each wired
\* member has its own.
AdapterOf(name) == IF name = "x" THEN "adapterX" ELSE "adapterY"

ConfigOf(name) == IF name = "x" THEN "configX" ELSE "configY"

\* --------------------------------------------------------- descriptors ----
\* getOwnPropertyDescriptor(...) === undefined
UndefinedDescriptor ==
    [by |-> "none", key |-> "none", value |-> "undefined",
     writable |-> "undefined", get |-> "undefined", set |-> "undefined"]

DataDescriptor(key, value, writable) ==
    [by |-> "author", key |-> key, value |-> value,
     writable |-> writable, get |-> "undefined", set |-> "undefined"]

AccessorDescriptor(by, key, get, set) ==
    [by |-> by, key |-> key, value |-> "undefined",
     writable |-> "undefined", get |-> get, set |-> set]

\* What a class body (or a hand-written defineProperty) can leave under a name.
AuthoredDescriptors(key) ==
    {UndefinedDescriptor,
     DataDescriptor(key, "function", "true"),
     DataDescriptor(key, "function", "false"),
     DataDescriptor(key, "other", "true"),
     AccessorDescriptor("author", key, "function", "undefined"),
     AccessorDescriptor("author", key, "undefined", "function"),
     AccessorDescriptor("author", key, "function", "function")}

isUndefined(v) == v = "undefined"

isFunction(v) == v = "function"

isFalse(v) == v = "false"

isUndefinedDescriptor(d) == d.by = "none"

getOwnPropertyDescriptor(protos, Ctor, name) == protos[Ctor][name]

defineProperty(protos, Ctor, name, descriptor) ==
    [protos EXCEPT ![Ctor][name] = descriptor]

\* proto[name]: an ordinary property read, which walks the prototype chain.
\* A data property yields its value; an accessor yields whatever its getter
\* returns, which is not a function of the prototype.
RECURSIVE ReadProperty(_, _, _)
ReadProperty(protos, Ctor, name) ==
    IF Ctor = "none"
    THEN [t |-> "undefined", owner |-> "none", name |-> name]
    ELSE LET d == protos[Ctor][name]
         IN IF isUndefinedDescriptor(d)
            THEN ReadProperty(protos, SuperOf(Ctor), name)
            ELSE IF isFunction(d.value)
                 THEN [t |-> "function", owner |-> Ctor, name |-> name]
                 ELSE IF ~isUndefined(d.value)
                      THEN [t |-> "other", owner |-> Ctor, name |-> name]
                      ELSE IF isFunction(d.get)
                           THEN [t |-> "getterResult", owner |-> Ctor, name |-> name]
                           ELSE [t |-> "undefined", owner |-> "none", name |-> name]

\* ------------------------------------------------ descriptor factories ----
\* ./api, ./track and ./wire are not part of the sources at hand; the
\* factories are modelled from section 4.2 - 4.4 of the specification.
createPublicPropertyDescriptor(key) ==
    AccessorDescriptor("api", key, "function", "function")

\* Wraps the authored getter (always) and setter (optional).
createPublicAccessorDescriptor(key, descriptor) ==
    AccessorDescriptor("apiAccessor", key, "function", descriptor.set)

\* The factory needs a getter to wrap.
createPublicAccessorDescriptorThrows(descriptor) ==
    ~isFunction(descriptor.get)

internalTrackDecorator(key) ==
    AccessorDescriptor("track", key, "function", "function")

internalWireFieldDecorator(key) ==
    AccessorDescriptor("wire", key, "function", "function")

\* A write to property name of an instance of Ctor, resolved along the
\* prototype chain: how many invalidation notifications it triggers and
\* whether it raises the wired-field misuse error (sections 4.2 - 4.4).
RECURSIVE WriteProperty(_, _, _)
WriteProperty(protos, Ctor, name) ==
    IF Ctor = "none"
    THEN [notifications |-> 0, misuse |-> FALSE]
    ELSE LET d == protos[Ctor][name]
         IN IF isUndefinedDescriptor(d)
            THEN WriteProperty(protos, SuperOf(Ctor), name)
            ELSE IF d.by \in {"api", "track"}
                 THEN [notifications |-> 1, misuse |-> FALSE]
                 ELSE IF d.by = "apiAccessor" /\ isFunction(d.set)
                      THEN [notifications |-> 1, misuse |-> FALSE]
                      ELSE IF d.by = "wire"
                           THEN [notifications |-> 0, misuse |-> TRUE]
                           ELSE [notifications |-> 0, misuse |-> FALSE]

\* --------------------------------------------------------------- errors ----
NoError == [template |-> "none", member |-> "none"]

\* assert.fail(`Compiler Error: ...`) with the member name interpolated.
Fail(template, member) == [template |-> template, member |-> member]

ValidationTemplates ==
    {"Invalid field declaration", "Invalid @track declaration",
     "Invalid @wire(...) field declaration", "Invalid @wire(...) method declaration",
     "Invalid @api field declaration", "Invalid @api get accessor declaration",
     "Missing getter for property decorated with @api",
     "Missing @api get accessor declaration", "Invalid @api method declaration"}

\* -------------------------------------------------------------- validators ----
\* Each returns the failure it raises, or NoError when it returns normally.
validateObservedField(env, protos, Ctor, fieldName) ==
    IF env # "production"
    THEN LET descriptor == getOwnPropertyDescriptor(protos, Ctor, fieldName)
         IN IF ~isUndefinedDescriptor(descriptor)
            THEN Fail("Invalid field declaration", fieldName)
            ELSE NoError
    ELSE NoError

\* The track validation reading the name along the prototype chain.
validateFieldDecoratedWithTrackInherited(env, protos, Ctor, fieldName) ==
    IF env # "production"
    THEN IF ReadProperty(protos, Ctor, fieldName).t # "undefined"
         THEN Fail("Invalid @track declaration", fieldName)
         ELSE NoError
    ELSE NoError

validateFieldDecoratedWithTrack(env, protos, Ctor, fieldName) ==
    IF env # "production"
    THEN LET descriptor == getOwnPropertyDescriptor(protos, Ctor, fieldName)
         IN IF ~isUndefinedDescriptor(descriptor)
            THEN Fail("Invalid @track declaration", fieldName)
            ELSE NoError
    ELSE NoError

validateFieldDecoratedWithWire(env, protos, Ctor, fieldName) ==
    IF env # "production"
    THEN LET descriptor == getOwnPropertyDescriptor(protos, Ctor, fieldName)
         IN IF ~isUndefinedDescriptor(descriptor)
            THEN Fail("Invalid @wire(...) field declaration", fieldName)
            ELSE NoError
    ELSE NoError

validateMethodDecoratedWithWire(env, protos, Ctor, methodName) ==
    IF env # "production"
    THEN LET descriptor == getOwnPropertyDescriptor(protos, Ctor, methodName)
         IN IF \/ isUndefinedDescriptor(descriptor)
               \/ ~isFunction(descriptor.value)
               \/ isFalse(descriptor.writable)
            THEN Fail("Invalid @wire(...) method declaration", methodName)
            ELSE NoError
    ELSE NoError

validateFieldDecoratedWithApi(env, protos, Ctor, fieldName) ==
    IF env # "production"
    THEN LET descriptor == getOwnPropertyDescriptor(protos, Ctor, fieldName)
         IN IF ~isUndefinedDescriptor(descriptor)
            THEN Fail("Invalid @api field declaration", fieldName)
            ELSE NoError
    ELSE NoError

\* The accessor validation letting a setter without a getter through.
validateAccessorDecoratedWithApiAcceptingSetterOnly(env, protos, Ctor, fieldName) ==
    IF env # "production"
    THEN LET descriptor == getOwnPropertyDescriptor(protos, Ctor, fieldName)
         IN IF isUndefinedDescriptor(descriptor)
            THEN Fail("Invalid @api get accessor declaration", fieldName)
            ELSE IF isFunction(descriptor.set)
                 THEN NoError
                 ELSE IF ~isFunction(descriptor.get)
                      THEN Fail("Missing @api get accessor declaration", fieldName)
                      ELSE NoError
    ELSE NoError

validateAccessorDecoratedWithApi(env, protos, Ctor, fieldName) ==
    IF env # "production"
    THEN LET descriptor == getOwnPropertyDescriptor(protos, Ctor, fieldName)
         IN IF isUndefinedDescriptor(descriptor)
            THEN Fail("Invalid @api get accessor declaration", fieldName)
            ELSE IF isFunction(descriptor.set)
                 THEN IF isFunction(descriptor.get)
                      THEN NoError
                      ELSE Fail("Missing getter for property decorated with @api", fieldName)
                 ELSE IF ~isFunction(descriptor.get)
                      THEN Fail("Missing @api get accessor declaration", fieldName)
                      ELSE NoError
    ELSE NoError

\* The check without its writable clause.
validateMethodDecoratedWithApiIgnoringWritable(env, protos, Ctor, methodName) ==
    IF env # "production"
    THEN LET descriptor == getOwnPropertyDescriptor(protos, Ctor, methodName)
         IN IF \/ isUndefinedDescriptor(descriptor)
               \/ ~isFunction(descriptor.value)
            THEN Fail("Invalid @api method declaration", methodName)
            ELSE NoError
    ELSE NoError

validateMethodDecoratedWithApi(env, protos, Ctor, methodName) ==
    IF env # "production"
    THEN LET descriptor == getOwnPropertyDescriptor(protos, Ctor, methodName)
         IN IF \/ isUndefinedDescriptor(descriptor)
               \/ ~isFunction(descriptor.value)
               \/ isFalse(descriptor.writable)
            THEN Fail("Invalid @api method declaration", methodName)
            ELSE NoError
    ELSE NoError

\* ------------------------------------------------------ compiler metadata ----
\* An optional property of meta: absent (undefined) or a collection. An object
\* literal (publicProps, wire, track) is the sequence of its entries in
\* for..in order; an array (publicMethods, fields) is the sequence itself.
Absent == [defined |-> FALSE, items |-> << >>]

Present(items) == [defined |-> TRUE, items |-> items]

Optional(items) == IF items = << >> THEN Absent ELSE Present(items)

SeqsOfLen(S, n) == [1..n -> S]

DistinctNames(s) == \A i, j \in DOMAIN s : i # j => s[i].name # s[j].name

\* PropCompilerDef (its type string is never read)
PropEntries == {[name |-> n, config |-> c] : n \in Names, c \in PropTypes}

\* WireCompilerDef; method is 1 or missing (0 here)
WireEntries ==
    {[name |-> n, method |-> m, adapter |-> AdapterOf(n), config |-> ConfigOf(n)] :
        n \in Names, m \in {0, 1}}

TrackEntries == {[name |-> n] : n \in Names}

\* How many members each of the five categories carries, k in all.
Shapes(k) ==
    {sh \in [{"publicProps", "publicMethods", "wire", "track", "fields"} -> 0..k] :
        sh.publicProps + sh.publicMethods + sh.wire + sh.track + sh.fields = k}

\* RegisterDecoratorMeta
MetasOfShape(sh) ==
    {[publicProps |-> Optional(pp), publicMethods |-> Optional(pm),
      wire |-> Optional(w), track |-> Optional(t), fields |-> Optional(f)] :
        pp \in {s \in SeqsOfLen(PropEntries, sh.publicProps) : DistinctNames(s)},
        pm \in SeqsOfLen(Names, sh.publicMethods),
        w \in {s \in SeqsOfLen(WireEntries, sh.wire) : DistinctNames(s)},
        t \in {s \in SeqsOfLen(TrackEntries, sh.track) : DistinctNames(s)},
        f \in SeqsOfLen(Names, sh.fields)}

\* The metas that carry k members.
MetasOfSize == [k \in 0..MaxMembers |-> UNION {MetasOfShape(sh) : sh \in Shapes(k)}]

Metas == UNION {MetasOfSize[k] : k \in 0..MaxMembers}

MembersOf(meta) ==
    Len(meta.publicProps.items) + Len(meta.publicMethods.items)
        + Len(meta.wire.items) + Len(meta.track.items) + Len(meta.fields.items)

\* ------------------------------------------------------ wiring subsystem ----
\* ../wiring is not part of the sources at hand: its per-class binding table
\* is modelled from section 4.4 of the specification.
NoBinding ==
    [kind |-> "none", adapter |-> "none", config |-> "none",
     method |-> [t |-> "undefined", owner |-> "none", name |-> "none"]]

NoMethod(name) == [t |-> "undefined", owner |-> "none", name |-> name]

storeWiredFieldMeta(wiring, Ctor, name, adapter, configCallback) ==
    [wiring EXCEPT ![Ctor][name] =
        [kind |-> "field", adapter |-> adapter, config |-> configCallback,
         method |-> NoMethod(name)]]

storeWiredMethodMeta(wiring, Ctor, name, adapter, method, configCallback) ==
    [wiring EXCEPT ![Ctor][name] =
        [kind |-> "method", adapter |-> adapter, config |-> configCallback,
         method |-> method]]

\* The call as the orchestrator issues it.
WireCall(fn, Ctor, name, adapter, method, configCallback) ==
    [fn |-> fn, Ctor |-> Ctor, name |-> name, adapter |-> adapter,
     method |-> method, config |-> configCallback]

\* ------------------------------------------------------------- Registry ----
\* DecoratorMeta; ref tells the object apart from others of equal contents.
DecoratorMeta(ref, apiMethods, apiFields, wiredMethods, wiredFields, fields) ==
    [ref |-> ref, apiMethods |-> apiMethods, apiFields |-> apiFields,
     wiredMethods |-> wiredMethods, wiredFields |-> wiredFields, fields |-> fields]

\* Map.prototype.get of a missing key
UndefinedMeta == DecoratorMeta("undefined", << >>, << >>, << >>, << >>, Absent)

defaultMeta == DecoratorMeta("defaultMeta", << >>, << >>, << >>, << >>, Absent)

\* A Registry keyed by class name rather than identity would hit the parent.
setDecoratorsMetaForFamily(map, Ctor, meta) ==
    [C \in DOMAIN map |-> IF C = Ctor \/ C = SuperOf(Ctor) THEN meta ELSE map[C]]

\* A Registry that merges into the entry it already holds.
setDecoratorsMetaMerging(map, Ctor, meta) ==
    [map EXCEPT ![Ctor] =
        [meta EXCEPT !.apiMethods = map[Ctor].apiMethods \o @,
                     !.apiFields = map[Ctor].apiFields \o @,
                     !.wiredMethods = map[Ctor].wiredMethods \o @,
                     !.wiredFields = map[Ctor].wiredFields \o @]]

setDecoratorsMeta(map, Ctor, meta) == [map EXCEPT ![Ctor] = meta]

getDecoratorsMetaOf(map, Ctor) ==
    LET meta == map[Ctor]
    IN IF meta.ref = "undefined" THEN defaultMeta ELSE meta

\* ----------------------------------------------------- registerDecorators ----
\* The running state of one registerDecorators call: the prototypes and the
\* wiring table as mutated so far, the wiring calls issued, the four local
\* lists, and the failure that ended the call (NoError while it runs).
StartRun(protos, wiring) ==
    [protos |-> protos, wiring |-> wiring, calls |-> << >>,
     apiMethods |-> << >>, apiFields |-> << >>,
     wiredMethods |-> << >>, wiredFields |-> << >>, error |-> NoError]

Throw(r, error) == [r EXCEPT !.error = error]

\* The iteration with the name put in front of apiFields (unshift for push).
PublicPropStepPrepending(env, r, Ctor, entry) ==
    LET fieldName == entry.name
        existing == getOwnPropertyDescriptor(r.protos, Ctor, fieldName)
        invalid == IF env = "production" THEN NoError
                   ELSE IF entry.config > 0
                        THEN validateAccessorDecoratedWithApi(env, r.protos, Ctor, fieldName)
                        ELSE validateFieldDecoratedWithApi(env, r.protos, Ctor, fieldName)
    IN IF invalid # NoError
       THEN Throw(r, invalid)
       ELSE IF entry.config > 0 /\ createPublicAccessorDescriptorThrows(existing)
            THEN Throw(r, Fail("createPublicAccessorDescriptor: no getter", fieldName))
            ELSE [r EXCEPT
                    !.apiFields = <<fieldName>> \o @,
                    !.protos = defineProperty(@, Ctor, fieldName,
                        IF entry.config > 0
                        THEN createPublicAccessorDescriptor(fieldName, existing)
                        ELSE createPublicPropertyDescriptor(fieldName))]

\* The iteration validating in every build.
PublicPropStepAlwaysValidating(env, r, Ctor, entry) ==
    LET fieldName == entry.name
    IN IF entry.config > 0
       THEN LET invalid == validateAccessorDecoratedWithApi("development", r.protos, Ctor, fieldName)
                existing == getOwnPropertyDescriptor(r.protos, Ctor, fieldName)
            IN IF invalid # NoError
               THEN Throw(r, invalid)
               ELSE IF createPublicAccessorDescriptorThrows(existing)
                    THEN Throw(r, Fail("createPublicAccessorDescriptor: no getter", fieldName))
                    ELSE [r EXCEPT
                            !.apiFields = Append(@, fieldName),
                            !.protos = defineProperty(@, Ctor, fieldName,
                                createPublicAccessorDescriptor(fieldName, existing))]
       ELSE LET invalid == validateFieldDecoratedWithApi("development", r.protos, Ctor, fieldName)
            IN IF invalid # NoError
               THEN Throw(r, invalid)
               ELSE [r EXCEPT
                       !.apiFields = Append(@, fieldName),
                       !.protos = defineProperty(@, Ctor, fieldName,
                           createPublicPropertyDescriptor(fieldName))]

\* One iteration of the for..in over publicProps.
PublicPropStep(env, r, Ctor, entry) ==
    LET fieldName == entry.name
    IN IF entry.config > 0
       THEN \* accessor declaration
            LET invalid == IF env # "production"
                           THEN validateAccessorDecoratedWithApi(env, r.protos, Ctor, fieldName)
                           ELSE NoError
                existing == getOwnPropertyDescriptor(r.protos, Ctor, fieldName)
            IN IF invalid # NoError
               THEN Throw(r, invalid)
               ELSE IF createPublicAccessorDescriptorThrows(existing)
                    THEN Throw(r, Fail("createPublicAccessorDescriptor: no getter", fieldName))
                    ELSE [r EXCEPT
                            !.apiFields = Append(@, fieldName),
                            !.protos = defineProperty(@, Ctor, fieldName,
                                createPublicAccessorDescriptor(fieldName, existing))]
       ELSE \* field declaration
            LET invalid == IF env # "production"
                           THEN validateFieldDecoratedWithApi(env, r.protos, Ctor, fieldName)
                           ELSE NoError
            IN IF invalid # NoError
               THEN Throw(r, invalid)
               ELSE [r EXCEPT
                       !.apiFields = Append(@, fieldName),
                       !.protos = defineProperty(@, Ctor, fieldName,
                           createPublicPropertyDescriptor(fieldName))]

\* The callback with the push moved inside the development-only block.
PublicMethodStepRecordingInDevelopment(env, r, Ctor, methodName) ==
    LET invalid == IF env # "production"
                   THEN validateMethodDecoratedWithApi(env, r.protos, Ctor, methodName)
                   ELSE NoError
    IN IF invalid # NoError
       THEN Throw(r, invalid)
       ELSE IF env # "production"
            THEN [r EXCEPT !.apiMethods = Append(@, methodName)]
            ELSE r

\* The callback without its validation.
PublicMethodStepUnvalidated(env, r, Ctor, methodName) ==
    [r EXCEPT !.apiMethods = Append(@, methodName)]

\* The iteration redefining the public method on the prototype.
PublicMethodStepInstalling(env, r, Ctor, methodName) ==
    LET invalid == IF env # "production"
                   THEN validateMethodDecoratedWithApi(env, r.protos, Ctor, methodName)
                   ELSE NoError
    IN IF invalid # NoError
       THEN Throw(r, invalid)
       ELSE [r EXCEPT
               !.apiMethods = Append(@, methodName),
               !.protos = defineProperty(@, Ctor, methodName,
                              DataDescriptor(methodName, "function", "false"))]

\* One call of the forEach callback over publicMethods.
PublicMethodStep(env, r, Ctor, methodName) ==
    LET invalid == IF env # "production"
                   THEN validateMethodDecoratedWithApi(env, r.protos, Ctor, methodName)
                   ELSE NoError
    IN IF invalid # NoError
       THEN Throw(r, invalid)
       ELSE [r EXCEPT !.apiMethods = Append(@, methodName)]

\* The iteration with adapter and config callback swapped in the field call.
WireStepSwappingArguments(env, r, Ctor, entry) ==
    LET fieldOrMethodName == entry.name
        adapter == entry.adapter
        configCallback == entry.config
    IN IF entry.method = 1
       THEN LET invalid == IF env # "production"
                           THEN validateMethodDecoratedWithWire(env, r.protos, Ctor, fieldOrMethodName)
                           ELSE NoError
                method == ReadProperty(r.protos, Ctor, fieldOrMethodName)
            IN IF invalid # NoError
               THEN Throw(r, invalid)
               ELSE [r EXCEPT
                       !.wiredMethods = Append(@, fieldOrMethodName),
                       !.calls = Append(@, WireCall("storeWiredMethodMeta", Ctor,
                           fieldOrMethodName, adapter, method, configCallback)),
                       !.wiring = storeWiredMethodMeta(@, Ctor, fieldOrMethodName,
                           adapter, method, configCallback)]
       ELSE LET invalid == IF env # "production"
                           THEN validateFieldDecoratedWithWire(env, r.protos, Ctor, fieldOrMethodName)
                           ELSE NoError
            IN IF invalid # NoError
               THEN Throw(r, invalid)
               ELSE [r EXCEPT
                       !.calls = Append(@, WireCall("storeWiredFieldMeta", Ctor,
                           fieldOrMethodName, configCallback,
                           NoMethod(fieldOrMethodName), adapter)),
                       !.wiring = storeWiredFieldMeta(@, Ctor, fieldOrMethodName,
                           configCallback, adapter),
                       !.wiredFields = Append(@, fieldOrMethodName),
                       !.protos = defineProperty(@, Ctor, fieldOrMethodName,
                           internalWireFieldDecorator(fieldOrMethodName))]

\* The iteration registering a wire method through the field call.
WireStepStoringMethodAsField(env, r, Ctor, entry) ==
    LET fieldOrMethodName == entry.name
        adapter == entry.adapter
        configCallback == entry.config
    IN IF entry.method = 1
       THEN LET invalid == IF env # "production"
                           THEN validateMethodDecoratedWithWire(env, r.protos, Ctor, fieldOrMethodName)
                           ELSE NoError
            IN IF invalid # NoError
               THEN Throw(r, invalid)
               ELSE [r EXCEPT
                       !.wiredMethods = Append(@, fieldOrMethodName),
                       !.calls = Append(@, WireCall("storeWiredFieldMeta", Ctor,
                           fieldOrMethodName, adapter, NoMethod(fieldOrMethodName),
                           configCallback)),
                       !.wiring = storeWiredFieldMeta(@, Ctor, fieldOrMethodName,
                           adapter, configCallback)]
       ELSE LET invalid == IF env # "production"
                           THEN validateFieldDecoratedWithWire(env, r.protos, Ctor, fieldOrMethodName)
                           ELSE NoError
            IN IF invalid # NoError
               THEN Throw(r, invalid)
               ELSE [r EXCEPT
                       !.calls = Append(@, WireCall("storeWiredFieldMeta", Ctor,
                           fieldOrMethodName, adapter, NoMethod(fieldOrMethodName),
                           configCallback)),
                       !.wiring = storeWiredFieldMeta(@, Ctor, fieldOrMethodName,
                           adapter, configCallback),
                       !.wiredFields = Append(@, fieldOrMethodName),
                       !.protos = defineProperty(@, Ctor, fieldOrMethodName,
                           internalWireFieldDecorator(fieldOrMethodName))]

\* One iteration of the for..in over wire.
WireStep(env, r, Ctor, entry) ==
    LET fieldOrMethodName == entry.name
        adapter == entry.adapter
        configCallback == entry.config
    IN IF entry.method = 1
       THEN LET invalid == IF env # "production"
                           THEN validateMethodDecoratedWithWire(env, r.protos, Ctor, fieldOrMethodName)
                           ELSE NoError
                method == ReadProperty(r.protos, Ctor, fieldOrMethodName)
            IN IF invalid # NoError
               THEN Throw(r, invalid)
               ELSE [r EXCEPT
                       !.wiredMethods = Append(@, fieldOrMethodName),
                       !.calls = Append(@, WireCall("storeWiredMethodMeta", Ctor,
                           fieldOrMethodName, adapter, method, configCallback)),
                       !.wiring = storeWiredMethodMeta(@, Ctor, fieldOrMethodName,
                           adapter, method, configCallback)]
       ELSE LET invalid == IF env # "production"
                           THEN validateFieldDecoratedWithWire(env, r.protos, Ctor, fieldOrMethodName)
                           ELSE NoError
            IN IF invalid # NoError
               THEN Throw(r, invalid)
               ELSE [r EXCEPT
                       !.calls = Append(@, WireCall("storeWiredFieldMeta", Ctor,
                           fieldOrMethodName, adapter, NoMethod(fieldOrMethodName),
                           configCallback)),
                       !.wiring = storeWiredFieldMeta(@, Ctor, fieldOrMethodName,
                           adapter, configCallback),
                       !.wiredFields = Append(@, fieldOrMethodName),
                       !.protos = defineProperty(@, Ctor, fieldOrMethodName,
                           internalWireFieldDecorator(fieldOrMethodName))]

\* The iteration recording the tracked name among the public fields.
TrackStepRecordingField(env, r, Ctor, entry) ==
    LET fieldName == entry.name
        invalid == IF env # "production"
                   THEN validateFieldDecoratedWithTrack(env, r.protos, Ctor, fieldName)
                   ELSE NoError
    IN IF invalid # NoError
       THEN Throw(r, invalid)
       ELSE [r EXCEPT !.apiFields = Append(@, fieldName),
                      !.protos = defineProperty(@, Ctor, fieldName,
                                     internalTrackDecorator(fieldName))]

\* One iteration of the for..in over track.
TrackStep(env, r, Ctor, entry) ==
    LET fieldName == entry.name
        invalid == IF env # "production"
                   THEN validateFieldDecoratedWithTrack(env, r.protos, Ctor, fieldName)
                   ELSE NoError
    IN IF invalid # NoError
       THEN Throw(r, invalid)
       ELSE [r EXCEPT !.protos = defineProperty(@, Ctor, fieldName,
                                     internalTrackDecorator(fieldName))]

\* The iteration installing a descriptor for the observed field.
ObservedFieldStepInstalling(env, r, Ctor, fieldName) ==
    LET invalid == IF env # "production"
                   THEN validateObservedField(env, r.protos, Ctor, fieldName)
                   ELSE NoError
    IN IF invalid # NoError
       THEN Throw(r, invalid)
       ELSE [r EXCEPT !.protos = defineProperty(@, Ctor, fieldName,
                                     createPublicPropertyDescriptor(fieldName))]

\* One iteration of the loop over fields.
ObservedFieldStep(env, r, Ctor, fieldName) ==
    LET invalid == IF env # "production"
                   THEN validateObservedField(env, r.protos, Ctor, fieldName)
                   ELSE NoError
    IN IF invalid # NoError THEN Throw(r, invalid) ELSE r

StepOf(category, env, r, Ctor, item) ==
    CASE category = "publicProps" -> PublicPropStep(env, r, Ctor, item)
      [] category = "publicMethods" -> PublicMethodStep(env, r, Ctor, item)
      [] category = "wire" -> WireStep(env, r, Ctor, item)
      [] category = "track" -> TrackStep(env, r, Ctor, item)
      [] category = "fields" -> ObservedFieldStep(env, r, Ctor, item)

\* A loop over one category from its i-th item on; a failure ends the call.
RECURSIVE Loop(_, _, _, _, _, _)
Loop(category, env, r, Ctor, items, i) ==
    IF r.error # NoError \/ i > Len(items)
    THEN r
    ELSE Loop(category, env, StepOf(category, env, r, Ctor, items[i]), Ctor, items, i + 1)

\* if (!isUndefined(category)) { loop }
Category(category, env, r, Ctor, optional) ==
    IF optional.defined
    THEN Loop(category, env, r, Ctor, optional.items, 1)
    ELSE r

\* The categories with track processed before wire.
RunCategoriesTrackBeforeWire(env, protos, wiring, Ctor, meta) ==
    LET r0 == StartRun(protos, wiring)
        r1 == Category("publicProps", env, r0, Ctor, meta.publicProps)
        r2 == Category("publicMethods", env, r1, Ctor, meta.publicMethods)
        r3 == Category("track", env, r2, Ctor, meta.track)
        r4 == Category("wire", env, r3, Ctor, meta.wire)
    IN Category("fields", env, r4, Ctor, meta.fields)

\* The five categories in the order of the function body.
RunCategories(env, protos, wiring, Ctor, meta) ==
    LET r0 == StartRun(protos, wiring)
        r1 == Category("publicProps", env, r0, Ctor, meta.publicProps)
        r2 == Category("publicMethods", env, r1, Ctor, meta.publicMethods)
        r3 == Category("wire", env, r2, Ctor, meta.wire)
        r4 == Category("track", env, r3, Ctor, meta.track)
    IN Category("fields", env, r4, Ctor, meta.fields)

\* The object literal passed to setDecoratorsMeta.
ResolvedMeta(r, meta) ==
    DecoratorMeta("entry", r.apiMethods, r.apiFields, r.wiredMethods,
                  r.wiredFields, meta.fields)

\* The Registry written before the categories are validated.
registerDecoratorsStoringFirst(env, protos, wiring, map, Ctor, meta) ==
    LET r == RunCategories(env, protos, wiring, Ctor, meta)
    IN [protos |-> r.protos, wiring |-> r.wiring, calls |-> r.calls,
        map |-> setDecoratorsMeta(map, Ctor, ResolvedMeta(r, meta)),
        threw |-> r.error # NoError, error |-> r.error,
        ret |-> IF r.error # NoError THEN "none" ELSE Ctor]

\* The call undoing its descriptors and wiring when a member fails.
registerDecoratorsRollingBack(env, protos, wiring, map, Ctor, meta) ==
    LET r == RunCategories(env, protos, wiring, Ctor, meta)
    IN IF r.error # NoError
       THEN [protos |-> protos, wiring |-> wiring, calls |-> r.calls,
             map |-> map, threw |-> TRUE, error |-> r.error, ret |-> "none"]
       ELSE [protos |-> r.protos, wiring |-> r.wiring, calls |-> r.calls,
             map |-> setDecoratorsMeta(map, Ctor, ResolvedMeta(r, meta)),
             threw |-> FALSE, error |-> NoError, ret |-> Ctor]

\* The whole call: what it leaves behind and how it ends.
registerDecorators(env, protos, wiring, map, Ctor, meta) ==
    LET r == RunCategories(env, protos, wiring, Ctor, meta)
    IN IF r.error # NoError
       THEN [protos |-> r.protos, wiring |-> r.wiring, calls |-> r.calls,
             map |-> map, threw |-> TRUE, error |-> r.error, ret |-> "none"]
       ELSE [protos |-> r.protos, wiring |-> r.wiring, calls |-> r.calls,
             map |-> setDecoratorsMeta(map, Ctor, ResolvedMeta(r, meta)),
             threw |-> FALSE, error |-> NoError, ret |-> Ctor]

\* ------------------------------------------------------------------ state ----
VARIABLES
    env,                        \* process.env.NODE_ENV
    protos,                     \* own property descriptors of each Ctor.prototype
    signedDecoratorToMetaMap,   \* the Registry
    wiring,                     \* the wiring subsystem's per-class binding table
    completed,                  \* the classes a registerDecorators call returned for
    processed,                  \* calls made and members carried so far
    last                        \* the last call: arguments, outcome, state before

vars == <<env, protos, signedDecoratorToMetaMap, wiring, completed, processed, last>>

EmptyMeta ==
    [publicProps |-> Absent, publicMethods |-> Absent, wire |-> Absent,
     track |-> Absent, fields |-> Absent]

\* The prototypes as the class definitions leave them. Parent declares a
\* method y and anything under x; Child declares nothing of its own, so that
\* whatever Parent declares is inherited by Child.prototype, not own.
InitialProtos ==
    {[C \in Ctors |-> [n \in Names |->
        IF C = "Parent"
        THEN (IF n = "x" THEN px ELSE DataDescriptor("y", "function", "true"))
        ELSE UndefinedDescriptor]] :
        px \in AuthoredDescriptors("x")}

Init ==
    /\ env \in {"development", "production"}
    /\ protos \in InitialProtos
    /\ signedDecoratorToMetaMap = [C \in Ctors |-> UndefinedMeta]
    /\ wiring = [C \in Ctors |-> [n \in Names |-> NoBinding]]
    /\ completed = {}
    /\ processed = 0
    /\ last = [op |-> "none", Ctor |-> "none", meta |-> EmptyMeta, threw |-> FALSE,
               error |-> NoError, ret |-> "none", calls |-> << >>,
               result |-> UndefinedMeta,
               pre |-> [protos |-> protos, map |-> signedDecoratorToMetaMap,
                        wiring |-> wiring]]

\* registerDecorators(Ctor, meta)
RegisterDecorators(Ctor, meta) ==
    /\ processed + 1 + MembersOf(meta) <= MaxProcessed
    /\ LET out == registerDecorators(env, protos, wiring, signedDecoratorToMetaMap,
                                     Ctor, meta)
       IN /\ protos' = out.protos
          /\ wiring' = out.wiring
          /\ signedDecoratorToMetaMap' = out.map
          /\ last' = [op |-> "registerDecorators", Ctor |-> Ctor, meta |-> meta,
                      threw |-> out.threw, error |-> out.error, ret |-> out.ret,
                      calls |-> out.calls, result |-> UndefinedMeta,
                      pre |-> [protos |-> protos, map |-> signedDecoratorToMetaMap,
                               wiring |-> wiring]]
          /\ completed' = IF out.threw THEN completed ELSE completed \cup {Ctor}
    /\ processed' = processed + 1 + MembersOf(meta)
    /\ UNCHANGED env

\* getDecoratorsMeta(Ctor)
GetDecoratorsMeta(Ctor) ==
    /\ processed + 1 <= MaxProcessed
    /\ last' = [op |-> "getDecoratorsMeta", Ctor |-> Ctor, meta |-> EmptyMeta,
                threw |-> FALSE, error |-> NoError, ret |-> "none", calls |-> << >>,
                result |-> getDecoratorsMetaOf(signedDecoratorToMetaMap, Ctor),
                pre |-> [protos |-> protos, map |-> signedDecoratorToMetaMap,
                         wiring |-> wiring]]
    /\ processed' = processed + 1
    /\ UNCHANGED <<env, protos, signedDecoratorToMetaMap, wiring, completed>>

\* The caller of registerDecorators pushes a name onto the fields array it
\* passed. The entry stored for Ctor holds that very array (the object
\* literal of the setDecoratorsMeta call copies the reference), so the push
\* shows in the Registry.
PushObservedField(Ctor, fieldName) ==
    /\ processed + 1 <= MaxProcessed
    /\ signedDecoratorToMetaMap[Ctor].ref = "entry"
    /\ signedDecoratorToMetaMap[Ctor].fields.defined
    /\ signedDecoratorToMetaMap' =
          [signedDecoratorToMetaMap EXCEPT ![Ctor].fields.items = Append(@, fieldName)]
    /\ last' = [op |-> "push", Ctor |-> Ctor, meta |-> EmptyMeta,
                threw |-> FALSE, error |-> NoError, ret |-> "none", calls |-> << >>,
                result |-> UndefinedMeta,
                pre |-> [protos |-> protos, map |-> signedDecoratorToMetaMap,
                         wiring |-> wiring]]
    /\ processed' = processed + 1
    /\ UNCHANGED <<env, protos, wiring, completed>>

Next ==
    \/ \E k \in 0..MaxMembers :
          /\ processed + 1 + k <= MaxProcessed
          /\ \E Ctor \in Ctors, meta \in MetasOfSize[k] : RegisterDecorators(Ctor, meta)
    \/ \E Ctor \in Ctors : GetDecoratorsMeta(Ctor)
    \/ \E Ctor \in Ctors, fieldName \in Names : PushObservedField(Ctor, fieldName)

Spec == Init /\ [][Next]_vars

\* ----------------------------------------------------------------- claims ----
Registering == last.op = "registerDecorators"

Registered == Registering /\ ~last.threw

ValidationFailed == Registering /\ last.threw /\ last.error.template \in ValidationTemplates

getDecoratorsMeta(Ctor) == getDecoratorsMetaOf(signedDecoratorToMetaMap, Ctor)

\* C1: a class that no completed registerDecorators call was given looks up
\* the shared default: the defaultMeta object itself, its four lists empty
\* and no fields entry; a getDecoratorsMeta call for it returns the same.
C1_DefaultForUnregistered ==
    /\ \A Ctor \in Ctors \ completed :
          /\ getDecoratorsMeta(Ctor).ref = "defaultMeta"
          /\ getDecoratorsMeta(Ctor).apiMethods = << >>
          /\ getDecoratorsMeta(Ctor).apiFields = << >>
          /\ getDecoratorsMeta(Ctor).wiredMethods = << >>
          /\ getDecoratorsMeta(Ctor).wiredFields = << >>
          /\ ~getDecoratorsMeta(Ctor).fields.defined
    /\ (last.op = "getDecoratorsMeta" /\ last.Ctor \notin completed)
          => last.result = defaultMeta

\* A lookup of the never registered superclass of a registered class.
C1_Witness ==
    /\ last.op = "getDecoratorsMeta"
    /\ last.Ctor = "Parent"
    /\ completed = {"Child"}
    /\ last.result = defaultMeta

\* C2: in development mode a registerDecorators call that fails a structural
\* validation leaves the Registry as it was: every class, the one being
\* registered included, looks up what it looked up before the call.
C2_FailureLeavesRegistry ==
    (env = "development" /\ ValidationFailed)
        => /\ signedDecoratorToMetaMap = last.pre.map
           /\ getDecoratorsMeta(last.Ctor) = getDecoratorsMetaOf(last.pre.map, last.Ctor)

\* An accessor-kind public prop without a descriptor fails the call after an
\* earlier member was installed, for a class that holds an entry.
C2_Witness ==
    /\ env = "development"
    /\ ValidationFailed
    /\ last.error.template = "Invalid @api get accessor declaration"
    /\ protos # last.pre.protos
    /\ last.pre.map[last.Ctor].ref = "entry"

\* The names of an object literal's entries, in order.
NamesOf(items) == [i \in DOMAIN items |-> items[i].name]

SelectMethod(entry) == entry.method = 1

SelectField(entry) == entry.method # 1

\* The metadata a meta resolves to, read off the meta alone.
ResolvedFrom(meta) ==
    DecoratorMeta("entry",
                  meta.publicMethods.items,
                  NamesOf(meta.publicProps.items),
                  NamesOf(SelectSeq(meta.wire.items, SelectMethod)),
                  NamesOf(SelectSeq(meta.wire.items, SelectField)),
                  meta.fields)

EntryNames(entry) ==
    {entry.apiMethods[i] : i \in DOMAIN entry.apiMethods}
        \cup {entry.apiFields[i] : i \in DOMAIN entry.apiFields}
        \cup {entry.wiredMethods[i] : i \in DOMAIN entry.wiredMethods}
        \cup {entry.wiredFields[i] : i \in DOMAIN entry.wiredFields}

\* C3: after a successful registerDecorators(ctor, m2) the Registry entry of
\* ctor is the metadata resolved from m2 alone, whatever entry ctor held
\* before: nothing of an earlier registration is merged in.
C3_LastWriteWins ==
    Registered => getDecoratorsMeta(last.Ctor) = ResolvedFrom(last.meta)

\* A second successful registration of a class whose entry named a member
\* the new meta does not.
C3_Witness ==
    /\ Registered
    /\ last.pre.map[last.Ctor].ref = "entry"
    /\ EntryNames(last.pre.map[last.Ctor]) \ EntryNames(ResolvedFrom(last.meta)) # {}
    /\ EntryNames(ResolvedFrom(last.meta)) # {}

\* C8: a registerDecorators call that completes returns the ctor it was
\* given and has written one Registry entry, under that ctor: the entry of
\* every other class is the one it had.
C8_ReturnsCtor ==
    Registered =>
        /\ last.ret = last.Ctor
        /\ signedDecoratorToMetaMap[last.Ctor].ref = "entry"
        /\ \A Ctor \in Ctors \ {last.Ctor} :
              signedDecoratorToMetaMap[Ctor] = last.pre.map[Ctor]

\* A meta with all five categories absent, registered for the subclass.
C8_Witness ==
    /\ Registered
    /\ last.meta = EmptyMeta
    /\ last.Ctor = "Child"
    /\ last.ret = "Child"

Range(seq) == {seq[i] : i \in DOMAIN seq}

Occurrences(seq, v) == Cardinality({i \in DOMAIN seq : seq[i] = v})

FieldKindNames(meta) ==
    {meta.publicProps.items[i].name :
        i \in {j \in DOMAIN meta.publicProps.items : meta.publicProps.items[j].config = Field}}

PropNames(meta) == Range(NamesOf(meta.publicProps.items))

WireFieldEntries(meta) == Range(SelectSeq(meta.wire.items, SelectField))

WireMethodEntries(meta) == Range(SelectSeq(meta.wire.items, SelectMethod))

WireFieldNames(meta) == {e.name : e \in WireFieldEntries(meta)}

WireNames(meta) == Range(NamesOf(meta.wire.items))

TrackNames(meta) == Range(NamesOf(meta.track.items))

\* C4 as stated: after a successful registerDecorators with publicProps,
\* apiFields is the publicProps names in declaration order, each once, and
\* every Field-kind name carries the public-field descriptor, a write to it
\* triggering exactly one invalidation notification.
C4_AsStated ==
    (Registered /\ last.meta.publicProps.defined) =>
        /\ getDecoratorsMeta(last.Ctor).apiFields = NamesOf(last.meta.publicProps.items)
        /\ \A x \in PropNames(last.meta) :
              Occurrences(getDecoratorsMeta(last.Ctor).apiFields, x) = 1
        /\ \A x \in FieldKindNames(last.meta) :
              /\ protos[last.Ctor][x] = createPublicPropertyDescriptor(x)
              /\ WriteProperty(protos, last.Ctor, x) = [notifications |-> 1, misuse |-> FALSE]

\* C4, amended: as stated, for every Field-kind name that the same meta does
\* not also declare as a wire field or a tracked field (a later installer of
\* the same call overwrites the public-field descriptor otherwise).
C4_ApiFieldsInOrder ==
    (Registered /\ last.meta.publicProps.defined) =>
        /\ getDecoratorsMeta(last.Ctor).apiFields = NamesOf(last.meta.publicProps.items)
        /\ \A x \in PropNames(last.meta) :
              Occurrences(getDecoratorsMeta(last.Ctor).apiFields, x) = 1
        /\ \A x \in FieldKindNames(last.meta) \ (WireFieldNames(last.meta) \cup TrackNames(last.meta)) :
              /\ protos[last.Ctor][x] = createPublicPropertyDescriptor(x)
              /\ WriteProperty(protos, last.Ctor, x) = [notifications |-> 1, misuse |-> FALSE]

\* Two Field-kind public props, y declared before x, registered with the
\* validation on.
C4_Witness ==
    /\ Registered
    /\ env = "development"
    /\ last.meta.publicProps.items =
          <<[name |-> "y", config |-> Field], [name |-> "x", config |-> Field]>>
    /\ getDecoratorsMeta(last.Ctor).apiFields = <<"y", "x">>
    /\ protos[last.Ctor]["x"].by = "api"

FieldCallsFor(name) ==
    {i \in DOMAIN last.calls :
        last.calls[i].fn = "storeWiredFieldMeta" /\ last.calls[i].name = name}

\* What C5 says of the wiring call and the resolved lists.
C5_CallAndLists(entry) ==
    /\ Cardinality(FieldCallsFor(entry.name)) = 1
    /\ \A i \in FieldCallsFor(entry.name) :
          last.calls[i] = WireCall("storeWiredFieldMeta", last.Ctor, entry.name,
                                   entry.adapter, NoMethod(entry.name), entry.config)
    /\ entry.name \in Range(getDecoratorsMeta(last.Ctor).wiredFields)
    /\ entry.name \notin Range(getDecoratorsMeta(last.Ctor).wiredMethods)

\* C5 as stated: for every wire entry y with the method flag unset, a
\* successful registerDecorators calls storeWiredFieldMeta once for y, with
\* (ctor, y, adapter, config callback), lists y in wiredFields and not in
\* wiredMethods, and leaves the wire-field descriptor under y.
C5_AsStated ==
    Registered =>
        \A entry \in WireFieldEntries(last.meta) :
            /\ C5_CallAndLists(entry)
            /\ protos[last.Ctor][entry.name] = internalWireFieldDecorator(entry.name)

\* C5, amended: as stated, the descriptor left under y being the wire-field
\* one unless the same meta also tracks y (the track installer runs later).
C5_WireField ==
    Registered =>
        \A entry \in WireFieldEntries(last.meta) :
            /\ C5_CallAndLists(entry)
            /\ entry.name \notin TrackNames(last.meta)
                  => protos[last.Ctor][entry.name] = internalWireFieldDecorator(entry.name)

\* A wire field y registered together with a wire method.
C5_Witness ==
    /\ Registered
    /\ \E entry \in WireFieldEntries(last.meta) : entry.name = "y"
    /\ WireMethodEntries(last.meta) # {}
    /\ Len(last.calls) = 2
    /\ protos[last.Ctor]["y"].by = "wire"

InSomeList(entry, name) == name \in EntryNames(entry)

\* C6 as stated: a tracked name z of a successfully registered meta is in
\* none of the four resolved lists, and the prototype carries the track
\* descriptor under z, a write to z triggering invalidation.
C6_AsStated ==
    Registered =>
        \A z \in TrackNames(last.meta) :
            /\ ~InSomeList(getDecoratorsMeta(last.Ctor), z)
            /\ protos[last.Ctor][z] = internalTrackDecorator(z)
            /\ WriteProperty(protos, last.Ctor, z).notifications = 1

\* C6, amended: as stated, z being in none of the four lists unless the same
\* meta also declares z as a public prop, a public method or a wire entry.
C6_TrackedNotListed ==
    Registered =>
        \A z \in TrackNames(last.meta) :
            /\ z \notin (PropNames(last.meta) \cup Range(last.meta.publicMethods.items)
                            \cup WireNames(last.meta))
                  => ~InSomeList(getDecoratorsMeta(last.Ctor), z)
            /\ protos[last.Ctor][z] = internalTrackDecorator(z)
            /\ WriteProperty(protos, last.Ctor, z).notifications = 1

\* A tracked z registered next to a public prop of another name.
C6_Witness ==
    /\ Registered
    /\ TrackNames(last.meta) = {"x"}
    /\ PropNames(last.meta) = {"y"}
    /\ getDecoratorsMeta(last.Ctor).apiFields = <<"y">>
    /\ protos[last.Ctor]["x"].by = "track"

\* An own descriptor whose value is a function and whose writable attribute
\* is not false.
IsMethodDescriptor(d) ==
    /\ d # UndefinedDescriptor
    /\ d.value = "function"
    /\ d.writable # "false"

ApiMethodNames(meta) == Range(meta.publicMethods.items)

WireMethodNames(meta) == {e.name : e \in WireMethodEntries(meta)}

\* A meta that carries method-style members only.
OnlyMethods(meta) ==
    /\ ~meta.publicProps.defined
    /\ ~meta.track.defined
    /\ ~meta.fields.defined
    /\ WireFieldEntries(meta) = {}

\* The method-style members of a meta in the order they are processed, each
\* with the diagnostic of its category.
MethodMembers(meta) ==
    [i \in DOMAIN meta.publicMethods.items |->
        Fail("Invalid @api method declaration", meta.publicMethods.items[i])]
    \o [i \in DOMAIN SelectSeq(meta.wire.items, SelectMethod) |->
        Fail("Invalid @wire(...) method declaration",
             SelectSeq(meta.wire.items, SelectMethod)[i].name)]

InvalidMethods(members, protosOfCtor) ==
    {i \in DOMAIN members : ~IsMethodDescriptor(protosOfCtor[members[i].member])}

Least(S) == CHOOSE i \in S : \A j \in S : i <= j

\* C7: in development mode a method name (of publicMethods, or of a wire
\* entry flagged as a method) passes validation exactly if the prototype
\* has an own descriptor for it of function value and not writable: false.
\* A call that completes had every method name pass; a call that fails with
\* a method diagnostic names a member of that category that does not pass;
\* and a call with method-style members only fails exactly if one of them
\* does not pass, with the diagnostic of the first such member.
C7_MethodValidation ==
    (env = "development" /\ Registering) =>
        /\ ~last.threw =>
              \A m \in ApiMethodNames(last.meta) \cup WireMethodNames(last.meta) :
                  /\ IsMethodDescriptor(last.pre.protos[last.Ctor][m])
                  /\ IsMethodDescriptor(protos[last.Ctor][m])
        /\ (last.threw /\ last.error.template = "Invalid @api method declaration") =>
              /\ last.error.member \in ApiMethodNames(last.meta)
              /\ ~IsMethodDescriptor(protos[last.Ctor][last.error.member])
        /\ (last.threw /\ last.error.template = "Invalid @wire(...) method declaration") =>
              /\ last.error.member \in WireMethodNames(last.meta)
              /\ ~IsMethodDescriptor(protos[last.Ctor][last.error.member])
        /\ OnlyMethods(last.meta) =>
              LET members == MethodMembers(last.meta)
                  invalid == InvalidMethods(members, last.pre.protos[last.Ctor])
              IN /\ last.threw <=> invalid # {}
                 /\ invalid # {} => last.error = members[Least(invalid)]

\* publicMethods = [x] where the descriptor of x has writable: false.
C7_Witness ==
    /\ env = "development"
    /\ Registering
    /\ last.meta.publicMethods.items = <<"x">>
    /\ last.pre.protos[last.Ctor]["x"] = DataDescriptor("x", "function", "false")
    /\ last.threw
    /\ last.error = Fail("Invalid @api method declaration", "x")

\* What a call leaves behind and returns, the failure message apart.
Effects(out) ==
    [protos |-> out.protos, wiring |-> out.wiring, calls |-> out.calls,
     map |-> out.map, threw |-> out.threw, ret |-> out.ret]

RunIn(mode) ==
    registerDecorators(mode, last.pre.protos, last.pre.wiring, last.pre.map,
                       last.Ctor, last.meta)

\* C9: whenever registerDecorators raises no validation failure with the
\* validation enabled, running it from the same state with the validation
\* disabled leaves the same prototype descriptors, issues the same wiring
\* calls, writes the same Registry entry and returns the same value; the
\* call that did run is one of the two.
C9_ValidationIsDiagnostic ==
    Registering =>
        /\ Effects(RunIn(env)) =
              [protos |-> protos, wiring |-> wiring, calls |-> last.calls,
               map |-> signedDecoratorToMetaMap, threw |-> last.threw, ret |-> last.ret]
        /\ RunIn("development").error.template \notin ValidationTemplates
              => Effects(RunIn("development")) = Effects(RunIn("production"))

\* A production call with a public method, a wire field and a wiring call
\* that the development build would have let through as well.
C9_Witness ==
    /\ Registered
    /\ env = "production"
    /\ ~RunIn("development").threw
    /\ last.meta.publicMethods.defined
    /\ last.meta.wire.defined
    /\ Len(last.calls) = 1

HasEntry(Ctor) == signedDecoratorToMetaMap[Ctor].ref = "entry"

\* C10 as stated: for every class with a Registry entry, every name in its
\* apiFields has a property descriptor on the prototype and every name in
\* its apiMethods is a function-valued property of the prototype (own or
\* inherited).
C10_AsStated ==
    \A Ctor \in Ctors :
        HasEntry(Ctor) =>
            /\ \A n \in Range(getDecoratorsMeta(Ctor).apiFields) :
                  protos[Ctor][n] # UndefinedDescriptor
            /\ \A n \in Range(getDecoratorsMeta(Ctor).apiMethods) :
                  ReadProperty(protos, Ctor, n).t = "function"

\* C10, amended: for every class with a Registry entry, every name in its
\* apiFields has an own property descriptor on the prototype; and in a
\* build with the validation enabled every name in its apiMethods has an
\* own function-valued property there. (A production build records the
\* publicMethods names unchecked.)
C10_RegistryNamesPresent ==
    \A Ctor \in Ctors :
        HasEntry(Ctor) =>
            /\ \A n \in Range(getDecoratorsMeta(Ctor).apiFields) :
                  protos[Ctor][n] # UndefinedDescriptor
            /\ env = "development" =>
                  \A n \in Range(getDecoratorsMeta(Ctor).apiMethods) :
                      /\ protos[Ctor][n] # UndefinedDescriptor
                      /\ protos[Ctor][n].value = "function"

\* An entry with a public field and a public method, in development mode.
C10_Witness ==
    /\ env = "development"
    /\ \E Ctor \in Ctors :
          /\ HasEntry(Ctor)
          /\ getDecoratorsMeta(Ctor).apiFields # << >>
          /\ getDecoratorsMeta(Ctor).apiMethods # << >>

\* The call as it would have run from the same state without meta.fields.
RunWithoutFields ==
    registerDecorators(env, last.pre.protos, last.pre.wiring, last.pre.map,
                       last.Ctor, [last.meta EXCEPT !.fields = Absent])

\* C11: after a registerDecorators call that completes, the fields of the
\* entry is meta.fields itself: the same names in the same order, absent when
\* meta.fields is absent; and the observed fields leave no trace on the
\* prototype or in the wiring: the descriptors, the wiring table and the
\* wiring calls are those of the same call without meta.fields.
C11_ObservedFieldsPassThrough ==
    Registering =>
        /\ ~last.threw => getDecoratorsMeta(last.Ctor).fields = last.meta.fields
        /\ protos = RunWithoutFields.protos
        /\ wiring = RunWithoutFields.wiring
        /\ last.calls = RunWithoutFields.calls

\* A development call that registers an observed field next to a member that
\* does install a descriptor.
C11_Witness ==
    /\ Registered
    /\ env = "development"
    /\ last.meta.fields.defined
    /\ Len(last.meta.fields.items) = 1
    /\ getDecoratorsMeta(last.Ctor).fields = last.meta.fields
    /\ protos # last.pre.protos
    /\ last.pre.protos[last.Ctor][last.meta.fields.items[1]] = protos[last.Ctor][last.meta.fields.items[1]]

ObservedNames(meta) == Range(meta.fields.items)

\* The categories of a meta that name a member.
CategoriesNaming(meta, name) ==
    {c \in {"publicProps"} : name \in PropNames(meta)}
        \cup {c \in {"publicMethods"} : name \in ApiMethodNames(meta)}
        \cup {c \in {"wire"} : name \in WireNames(meta)}
        \cup {c \in {"track"} : name \in TrackNames(meta)}
        \cup {c \in {"fields"} : name \in ObservedNames(meta)}

InTwoCategories(meta, name) == Cardinality(CategoriesNaming(meta, name)) >= 2

\* The descriptor a completed call leaves under a name: that of the last of
\* publicProps, wire (field branch) and track to name it, the others install
\* nothing; descriptor is the own descriptor before the call.
LastInstalled(meta, name, descriptor) ==
    IF name \in TrackNames(meta) THEN internalTrackDecorator(name)
    ELSE IF name \in WireFieldNames(meta) THEN internalWireFieldDecorator(name)
    ELSE IF name \in FieldKindNames(meta) THEN createPublicPropertyDescriptor(name)
    ELSE IF name \in PropNames(meta) THEN createPublicAccessorDescriptor(name, descriptor)
    ELSE descriptor

\* C12 as stated, on the case it names: a meta declaring one member a
\* Field-kind public prop and a member of a second category completes
\* without any failure, and the descriptor left under the name is the one of
\* the last category to install one.
C12_AsStated ==
    Registering =>
        \A name \in FieldKindNames(last.meta) :
            InTwoCategories(last.meta, name) =>
                /\ ~last.threw
                /\ protos[last.Ctor][name] =
                      LastInstalled(last.meta, name, last.pre.protos[last.Ctor][name])

\* C12: for a name that two categories of one meta declare, a production
\* call runs no structural check and, when it completes, leaves under the
\* name the descriptor of the last of publicProps, wire field and track to
\* declare it; a development call completes only when both declarations are
\* method-style (publicMethods and a wire method), leaving the authored
\* descriptor, and fails a validation otherwise.
C12_LastInstallerWins ==
    Registering =>
        \A name \in Names :
            InTwoCategories(last.meta, name) =>
                /\ env = "production" =>
                      /\ last.error.template \notin ValidationTemplates
                      /\ ~last.threw =>
                            protos[last.Ctor][name] =
                                LastInstalled(last.meta, name,
                                              last.pre.protos[last.Ctor][name])
                /\ env = "development" =>
                      /\ CategoriesNaming(last.meta, name) # {"publicMethods", "wire"}
                            => ValidationFailed
                      /\ ~last.threw =>
                            /\ name \in WireMethodNames(last.meta)
                            /\ protos[last.Ctor][name] = last.pre.protos[last.Ctor][name]

\* A production call whose meta declares x a Field-kind public prop and a
\* tracked field: it completes and x carries the track descriptor.
C12_Witness ==
    /\ Registered
    /\ env = "production"
    /\ "x" \in FieldKindNames(last.meta)
    /\ "x" \in TrackNames(last.meta)
    /\ protos[last.Ctor]["x"] = internalTrackDecorator("x")

AccessorKinds == {Set, Get, GetSet}

SetterKinds == {Set, GetSet}

\* What the claim has the accessor validation say of an own descriptor.
AccessorDiagnostic(descriptor) ==
    IF isUndefinedDescriptor(descriptor)
    THEN "Invalid @api get accessor declaration"
    ELSE IF isFunction(descriptor.set) /\ ~isFunction(descriptor.get)
    THEN "Missing getter for property decorated with @api"
    ELSE IF ~isFunction(descriptor.get)
    THEN "Missing @api get accessor declaration"
    ELSE "none"

\* A public prop entry that the descriptors before the call let through.
PropPasses(entry, protosOfCtor) ==
    IF entry.config \in AccessorKinds
    THEN AccessorDiagnostic(protosOfCtor[entry.name]) = "none"
    ELSE isUndefinedDescriptor(protosOfCtor[entry.name])

\* C13: in development mode a public prop of kind Set, Get or GetSet needs
\* an own descriptor with a getter, the setter kinds included: a call that
\* completes had both for each such prop, and the first prop that lacks the
\* descriptor, or has a setter without a getter, or no getter at all, ends
\* the call with that diagnostic, the Registry unwritten and the prop's
\* descriptor untouched.
C13_AccessorValidation ==
    (env = "development" /\ Registering) =>
        LET props == last.meta.publicProps.items
            before == last.pre.protos[last.Ctor]
        IN \A i \in DOMAIN props :
              props[i].config \in AccessorKinds =>
                  /\ ~last.threw =>
                        /\ ~isUndefinedDescriptor(before[props[i].name])
                        /\ isFunction(before[props[i].name].get)
                  /\ ((\A j \in 1..(i - 1) : PropPasses(props[j], before))
                        /\ AccessorDiagnostic(before[props[i].name]) # "none") =>
                        /\ last.threw
                        /\ last.error = Fail(AccessorDiagnostic(before[props[i].name]),
                                             props[i].name)
                        /\ signedDecoratorToMetaMap = last.pre.map
                        /\ protos[last.Ctor][props[i].name] = before[props[i].name]

\* A development call rejecting a setter-kind public prop whose descriptor
\* has a setter and no getter.
C13_Witness ==
    /\ env = "development"
    /\ Registering
    /\ last.meta.publicProps.defined
    /\ Len(last.meta.publicProps.items) = 1
    /\ last.meta.publicProps.items[1].config \in SetterKinds
    /\ isFunction(last.pre.protos[last.Ctor][last.meta.publicProps.items[1].name].set)
    /\ last.threw
    /\ last.error.template = "Missing getter for property decorated with @api"

\* The first n items of a category, the category kept present or absent.
FirstItems(optional, n) ==
    [defined |-> optional.defined,
     items |-> SubSeq(optional.items, 1,
                      IF n < 0 THEN 0
                      ELSE IF n > Len(optional.items) THEN Len(optional.items)
                      ELSE n)]

\* A meta cut after its first k members in processing order.
Truncate(meta, k) ==
    LET p == Len(meta.publicProps.items)
        m == Len(meta.publicMethods.items)
        w == Len(meta.wire.items)
        t == Len(meta.track.items)
    IN [publicProps |-> FirstItems(meta.publicProps, k),
        publicMethods |-> FirstItems(meta.publicMethods, k - p),
        wire |-> FirstItems(meta.wire, k - p - m),
        track |-> FirstItems(meta.track, k - p - m - w),
        fields |-> FirstItems(meta.fields, k - p - m - w - t)]

\* The k-th member in processing order: its name, whether it is a
\* field-style or a method-style declaration, and the diagnostic of the
\* validation of that style.
MemberAt(meta, k) ==
    LET p == Len(meta.publicProps.items)
        m == Len(meta.publicMethods.items)
        w == Len(meta.wire.items)
        t == Len(meta.track.items)
    IN IF k <= p
       THEN [name |-> meta.publicProps.items[k].name,
             fieldStyle |-> meta.publicProps.items[k].config = Field,
             methodStyle |-> FALSE,
             template |-> "Invalid @api field declaration"]
       ELSE IF k <= p + m
       THEN [name |-> meta.publicMethods.items[k - p],
             fieldStyle |-> FALSE,
             methodStyle |-> TRUE,
             template |-> "Invalid @api method declaration"]
       ELSE IF k <= p + m + w
       THEN [name |-> meta.wire.items[k - p - m].name,
             fieldStyle |-> meta.wire.items[k - p - m].method # 1,
             methodStyle |-> meta.wire.items[k - p - m].method = 1,
             template |-> IF meta.wire.items[k - p - m].method = 1
                          THEN "Invalid @wire(...) method declaration"
                          ELSE "Invalid @wire(...) field declaration"]
       ELSE IF k <= p + m + w + t
       THEN [name |-> meta.track.items[k - p - m - w].name,
             fieldStyle |-> TRUE,
             methodStyle |-> FALSE,
             template |-> "Invalid @track declaration"]
       ELSE [name |-> meta.fields.items[k - p - m - w - t],
             fieldStyle |-> TRUE,
             methodStyle |-> FALSE,
             template |-> "Invalid field declaration"]

\* The last call as it would have run from the same state on another meta.
RunOn(meta) ==
    registerDecorators(env, last.pre.protos, last.pre.wiring, last.pre.map,
                       last.Ctor, meta)

\* C14: in development mode a field-style member (Field-kind public prop,
\* wire field, track field, observed field) that the call gets to fails it
\* if and only if the prototype has an own descriptor under its name at
\* that moment; the failure carries the member's diagnostic and comes before
\* any descriptor or wiring call of the member, and a name that is only
\* inherited does not fail.
C14_FieldValidation ==
    (env = "development" /\ Registering) =>
        \A k \in 1..MembersOf(last.meta) :
            (MemberAt(last.meta, k).fieldStyle
                /\ ~RunOn(Truncate(last.meta, k - 1)).threw) =>
                LET member == MemberAt(last.meta, k)
                    at == RunOn(Truncate(last.meta, k - 1))
                    after == RunOn(Truncate(last.meta, k))
                    own == at.protos[last.Ctor][member.name]
                IN /\ after.threw <=> ~isUndefinedDescriptor(own)
                   /\ after.threw =>
                         /\ after.error = Fail(member.template, member.name)
                         /\ after.protos = at.protos
                         /\ after.wiring = at.wiring
                         /\ after.calls = at.calls
                         /\ last.threw
                         /\ last.error = after.error
                         /\ protos = at.protos
                         /\ wiring = at.wiring
                         /\ last.calls = at.calls
                   /\ ~last.threw => isUndefinedDescriptor(own)

\* A development call for the subclass: the tracked field y, a method the
\* superclass has, passes, and the observed field y after it fails on the
\* descriptor the track step installed.
C14_Witness ==
    /\ env = "development"
    /\ Registering
    /\ last.Ctor = "Child"
    /\ isUndefinedDescriptor(last.pre.protos["Child"]["y"])
    /\ ReadProperty(last.pre.protos, "Child", "y").t = "function"
    /\ "y" \in TrackNames(last.meta)
    /\ last.threw
    /\ last.error = Fail("Invalid field declaration", "y")
    /\ protos["Child"]["y"] = internalTrackDecorator("y")

\* C15: a method-style member (a publicMethods name, a wire entry with the
\* method flag set) changes no property descriptor: the call cut after the
\* member leaves the descriptors of the call cut before it, and adds to
\* neither apiFields nor wiredFields; a call whose meta has method-style
\* members only leaves the whole prototype as it was.
C15_MethodsLeavePrototype ==
    Registering =>
        /\ \A k \in 1..MembersOf(last.meta) :
              MemberAt(last.meta, k).methodStyle =>
                  LET at == RunOn(Truncate(last.meta, k - 1))
                      after == RunOn(Truncate(last.meta, k))
                  IN /\ after.protos = at.protos
                     /\ (~at.threw /\ ~after.threw) =>
                           /\ after.map[last.Ctor].apiFields = at.map[last.Ctor].apiFields
                           /\ after.map[last.Ctor].wiredFields = at.map[last.Ctor].wiredFields
                           /\ MemberAt(last.meta, k).name \in
                                 Range(after.map[last.Ctor].apiMethods)
                                     \cup Range(after.map[last.Ctor].wiredMethods)
        /\ OnlyMethods(last.meta) => protos = last.pre.protos

\* A completed development call declaring the authored method y a public
\* method and a wire method: the wiring table has the binding and y is the
\* authored descriptor still.
C15_Witness ==
    /\ Registered
    /\ env = "development"
    /\ last.Ctor = "Parent"
    /\ last.meta.publicMethods.items = <<"y">>
    /\ "y" \in WireMethodNames(last.meta)
    /\ wiring # last.pre.wiring
    /\ protos = last.pre.protos
    /\ protos["Parent"]["y"] = DataDescriptor("y", "function", "true")

\* The calls of a call that name a member, per wiring function.
MethodCallsFor(name) ==
    {i \in DOMAIN last.calls :
        last.calls[i].name = name /\ last.calls[i].fn = "storeWiredMethodMeta"}

\* The position in processing order of the i-th wire entry.
WirePosition(meta, i) ==
    Len(meta.publicProps.items) + Len(meta.publicMethods.items) + i

\* What a completed call shows for the i-th wire entry, a method entry: its
\* name in wiredMethods only, one storeWiredMethodMeta call with the class,
\* the name, the entry's adapter, the value proto[name] yields when the
\* entry is processed and the entry's config callback, no field call.
C16_MethodCall(i) ==
    LET entry == last.meta.wire.items[i]
        at == RunOn(Truncate(last.meta, WirePosition(last.meta, i) - 1))
        after == RunOn(Truncate(last.meta, WirePosition(last.meta, i)))
        call == WireCall("storeWiredMethodMeta", last.Ctor, entry.name, entry.adapter,
                         ReadProperty(at.protos, last.Ctor, entry.name), entry.config)
    IN /\ Occurrences(getDecoratorsMeta(last.Ctor).wiredMethods, entry.name) = 1
       /\ entry.name \notin Range(getDecoratorsMeta(last.Ctor).wiredFields)
       /\ after.calls = Append(at.calls, call)
       /\ Cardinality(MethodCallsFor(entry.name)) = 1
       /\ \A c \in MethodCallsFor(entry.name) : last.calls[c] = call
       /\ FieldCallsFor(entry.name) = {}
       /\ wiring[last.Ctor][entry.name] =
             [kind |-> "method", adapter |-> entry.adapter, config |-> entry.config,
              method |-> call.method]

\* C16 as stated: the method argument of the call is a function stored
\* under the name on the prototype.
C16_AsStated ==
    Registered =>
        \A i \in DOMAIN last.meta.wire.items :
            last.meta.wire.items[i].method = 1 =>
                /\ C16_MethodCall(i)
                /\ \A c \in MethodCallsFor(last.meta.wire.items[i].name) :
                      last.calls[c].method.t = "function"

\* C16: for every wire entry m with the method flag set a completed call has
\* m in wiredMethods and not in wiredFields, and has called
\* storeWiredMethodMeta once for m, with the class, m, the entry's adapter,
\* the value read under m from the prototype at that moment and the entry's
\* config callback, and storeWiredFieldMeta never; in development mode that
\* value is the function the prototype itself holds under m.
C16_WireMethod ==
    Registered =>
        \A i \in DOMAIN last.meta.wire.items :
            last.meta.wire.items[i].method = 1 =>
                /\ C16_MethodCall(i)
                /\ env = "development" =>
                      \A c \in MethodCallsFor(last.meta.wire.items[i].name) :
                          /\ last.calls[c].method.t = "function"
                          /\ last.calls[c].method.owner = last.Ctor

\* A completed development call wiring the authored method y of the class.
C16_Witness ==
    /\ Registered
    /\ env = "development"
    /\ last.meta.wire.defined
    /\ Len(last.meta.wire.items) = 1
    /\ last.meta.wire.items[1].name = "y"
    /\ last.meta.wire.items[1].method = 1
    /\ last.calls = <<WireCall("storeWiredMethodMeta", "Parent", "y", AdapterOf("y"),
                               [t |-> "function", owner |-> "Parent", name |-> "y"],
                               ConfigOf("y"))>>

\* The descriptor the k-th member installs when it is a Field-kind public
\* prop, a wire field or a track field.
InstalledBy(meta, k) ==
    LET member == MemberAt(meta, k)
    IN IF member.template = "Invalid @api field declaration"
       THEN createPublicPropertyDescriptor(member.name)
       ELSE IF member.template = "Invalid @wire(...) field declaration"
       THEN internalWireFieldDecorator(member.name)
       ELSE internalTrackDecorator(member.name)

\* The members that install a reactive field descriptor.
InstallsField(meta, k) ==
    /\ MemberAt(meta, k).fieldStyle
    /\ MemberAt(meta, k).template # "Invalid field declaration"

\* C17: a production call raises no validation failure. Each Field-kind
\* public prop, wire field and track field it gets to is processed whatever
\* own descriptor its name has, and leaves the installed reactive descriptor
\* under the name; the call ends other than by completing only when the
\* accessor factory meets an accessor-kind public prop without a getter, and
\* a call that completes has written the entry resolved from the meta.
C17_ProductionSkipsChecks ==
    (env = "production" /\ Registering) =>
        /\ last.error.template \notin ValidationTemplates
        /\ \A k \in 1..MembersOf(last.meta) :
              (InstallsField(last.meta, k)
                  /\ ~RunOn(Truncate(last.meta, k - 1)).threw) =>
                  /\ ~RunOn(Truncate(last.meta, k)).threw
                  /\ RunOn(Truncate(last.meta, k)).protos[last.Ctor][MemberAt(last.meta, k).name]
                        = InstalledBy(last.meta, k)
        /\ last.threw =>
              \E i \in DOMAIN last.meta.publicProps.items :
                  /\ last.meta.publicProps.items[i].config \in AccessorKinds
                  /\ last.error.member = last.meta.publicProps.items[i].name
                  /\ ~isFunction(last.pre.protos[last.Ctor][last.error.member].get)
        /\ ~last.threw =>
              /\ getDecoratorsMeta(last.Ctor) = ResolvedFrom(last.meta)
              /\ \A name \in FieldKindNames(last.meta) \cup WireFieldNames(last.meta)
                                \cup TrackNames(last.meta) :
                    protos[last.Ctor][name] =
                        LastInstalled(last.meta, name, last.pre.protos[last.Ctor][name])

\* A production call declaring the authored method y a Field-kind public
\* prop: it completes, y carries the public field descriptor and the class
\* has its entry.
C17_Witness ==
    /\ Registered
    /\ env = "production"
    /\ last.Ctor = "Parent"
    /\ last.meta.publicProps.items = <<[name |-> "y", config |-> Field]>>
    /\ last.pre.protos["Parent"]["y"] = DataDescriptor("y", "function", "true")
    /\ protos["Parent"]["y"] = createPublicPropertyDescriptor("y")
    /\ getDecoratorsMeta("Parent").apiFields = <<"y">>

\* C18 as stated: a class that a registerDecorators call completed for holds
\* an entry ever after, and the contents of that entry change only through
\* another completed registerDecorators call for the same class: every other
\* operation, a later change to the meta.fields array that was passed
\* included, leaves it as it was.
C18_AsStated ==
    /\ \A Ctor \in completed : getDecoratorsMeta(Ctor).ref = "entry"
    /\ last.op # "none" =>
          \A Ctor \in completed :
              (Registered /\ Ctor = last.Ctor)
                  \/ getDecoratorsMeta(Ctor) = getDecoratorsMetaOf(last.pre.map, Ctor)

\* The members that the call cut after them fails at or before.
FailingMembers == {k \in 1..MembersOf(last.meta) : RunOn(Truncate(last.meta, k)).threw}

\* C19: a development call that fails a validation at member k is left as
\* the completed call over the members before k left things: the same
\* descriptors, the same wiring table, the same wiring calls, nothing for k
\* or a later member; the Registry alone is as before the call, so the class
\* looks up what it did although the prototype and the wiring table moved.
C19_NoRollback ==
    (env = "development" /\ ValidationFailed) =>
        /\ FailingMembers # {}
        /\ LET k == Least(FailingMembers)
               at == RunOn(Truncate(last.meta, k - 1))
           IN /\ ~at.threw
              /\ last.error.member = MemberAt(last.meta, k).name
              /\ protos = at.protos
              /\ wiring = at.wiring
              /\ last.calls = at.calls
              /\ signedDecoratorToMetaMap = last.pre.map
              /\ getDecoratorsMeta(last.Ctor) = getDecoratorsMetaOf(last.pre.map, last.Ctor)

\* A development call for a never registered class failing at its second
\* member: the wire field before it has its descriptor and its binding, and
\* the class looks up the default.
C19_Witness ==
    /\ env = "development"
    /\ ValidationFailed
    /\ last.Ctor \notin completed
    /\ getDecoratorsMeta(last.Ctor) = defaultMeta
    /\ Len(last.calls) = 1
    /\ last.calls[1].fn = "storeWiredFieldMeta"
    /\ wiring[last.Ctor][last.calls[1].name].kind = "field"
    /\ protos[last.Ctor][last.calls[1].name] = internalWireFieldDecorator(last.calls[1].name)
    /\ last.pre.protos[last.Ctor][last.calls[1].name] = UndefinedDescriptor

\* C20: the Registry is keyed by the class itself and a lookup writes
\* nothing. A registerDecorators call for a class, completed or not, leaves
\* what every other class looks up, its superclass and its subclasses
\* included; a getDecoratorsMeta call returns what the Registry held and
\* leaves the Registry, the prototypes and the wiring table as they were.
C20_KeyedByClassAndPure ==
    /\ Registering =>
          \A B \in Ctors \ {last.Ctor} :
              getDecoratorsMeta(B) = getDecoratorsMetaOf(last.pre.map, B)
    /\ last.op = "getDecoratorsMeta" =>
          /\ last.result = getDecoratorsMetaOf(last.pre.map, last.Ctor)
          /\ signedDecoratorToMetaMap = last.pre.map
          /\ protos = last.pre.protos
          /\ wiring = last.pre.wiring

\* A completed call for the subclass of a registered class whose entry is
\* another: the superclass looks up the entry it had.
C20_Witness ==
    /\ Registered
    /\ last.Ctor = "Child"
    /\ last.pre.map["Parent"].ref = "entry"
    /\ getDecoratorsMeta("Parent") = last.pre.map["Parent"]
    /\ getDecoratorsMeta("Child").apiFields # getDecoratorsMeta("Parent").apiFields

====
